---- MODULE Spec2Model ----
(***************************************************************************)
(* A model of gofile_bot: bot.py (state file, assembly loop, posting) and  *)
(* goxplorer.py (listing extraction, dead-link check, candidate collector).*)
(*                                                                         *)
(* Three specifications share the module:                                  *)
(*   SpecProbe    is_gofile_alive and is_alive_retry, call by call         *)
(*   SpecCollect  collect_fresh_gofile_urls, page by page, probe by probe  *)
(*   Spec         main(), run after run over one state file                *)
(***************************************************************************)
EXTENDS Integers, Sequences, FiniteSets, TLC

VARIABLES
    \* is_gofile_alive, one call on its own
    ga_pc, ga_resp, ga_ret,
    \* _get_with_retry, one call on its own: what each GET would do, max_retry,
    \* and how the call ended
    gr_pc, gr_outs, gr_max, gr_ret,
    \* is_alive_retry: the loop's position and counter, its result, and what it has
    \* done so far (the results of its calls in order, its sleeps, its last step)
    ar_pc, ar_retries, ar_i, ar_ret, ar_log, ar_sleeps, ar_last,
    \* collect_fresh_gofile_urls, one call: its arguments, the listing it meets,
    \* the items fetch_listing_pages returned, the links that answer alive, and
    \* the list it returns; c_trace is what fetch_listing_pages did, page by page
    c_pc, c_seen, c_want, c_pages, c_site, c_items, c_alive, c_out, c_trace,
    \* state.json, and the clock (UTC hours) at the start of the current run
    disk, clock,
    \* main(): its position, its state dict, the seconds since start_ts, and
    \* its locals
    pc, state, elapsed, listing, already_seen, candidates, extra, phase, idx, cur,
    tested, preflight, start_seq, salt, community, status_text,
    \* what has been observed: the runs started, how the last run ended, the
    \* link sets of the successful posts, and of the current run its post
    \* attempts, the links is_alive_retry reported alive, and the work that
    \* was started after the deadline, the state file as the run found it, its
    \* calls of the collector and the links it handed to is_alive_retry, in order
    runs, outcome, posts, attempts, confirmed, late_starts, loaded, collects, probed

grVars == <<gr_pc, gr_outs, gr_max, gr_ret>>

gaVars == <<ga_pc, ga_resp, ga_ret, grVars>>

arVars == <<ar_pc, ar_retries, ar_i, ar_ret, ar_log, ar_sleeps, ar_last>>

cVars == <<c_pc, c_seen, c_want, c_pages, c_site, c_items, c_alive, c_out, c_trace>>

diskVars == <<disk, clock>>

mVars == <<pc, state, elapsed, listing, already_seen, candidates, extra, phase, idx, cur,
           tested, preflight, start_seq, salt, community, status_text>>

obsVars == <<runs, outcome, posts, attempts, confirmed, late_starts, loaded, collects, probed>>

mainVars == <<diskVars, mVars, obsVars>>

vars == <<gaVars, arVars, cVars, mainVars>>

\* ------------------------------------------------------------------ bounds
MaxRetries == 2
MaxWant == 3
MaxPages == 2
MaxRuns == 2
MaxTicks == 1
MaxAnchors == 2

\* ------------------------------------------------------- program constants
DAILY_LIMIT == 16
HARD_LIMIT_SEC == 180
TARGET == 5
SHORT_BODY_LEN == 500
LIST_MAX_RETRY == 4
DETAIL_MAX_RETRY == 3
PREFLIGHT_RETRIES == 1
WANT_FIRST == 25
PAGES_FIRST == 10
WANT_EXTRA == 40
PAGES_EXTRA == 12
WINDOW_FIRST_HOUR == 8
WINDOW_LAST_HOUR == 23
PURGE_HOURS == 24
JST_OFFSET == 9
FIRST_LINE_SEQ == 1
NUM_INVISIBLES == 2
NO_DATE == 0

\* ------------------------------------------------------------ time steps
\* The first run starts at 11:00 UTC of the third day (20:00 JST, inside the
\* posting window); a later run starts a number of steps of 11 hours after it
\* (the first at 07:00 JST of the next day, before the window opens). A
\* blocking call takes no time or takes the run past its deadline.
StartClock == 2 * PURGE_HOURS + 11

TickHours == PURGE_HOURS \div 2 - 1

TickSec == HARD_LIMIT_SEC + 1

\* ------------------------------------------------------------- sequences
Range(s) == {s[i] : i \in 1..Len(s)}

NoDup(s) == \A i, j \in 1..Len(s) : i # j => s[i] # s[j]

RECURSIVE SeqsOver(_)
\* every sequence that lists each element of the set S exactly once
SeqsOver(S) ==
    IF S = {} THEN {<<>>}
    ELSE UNION {{<<x>> \o t : t \in SeqsOver(S \ {x})} : x \in S}

Max2(a, b) == IF a >= b THEN a ELSE b

\* ------------------------------------------------------------------ URLs
\* A gofile link "<scheme>://gofile.io/d/<id>" with or without a trailing "/".
Ids == 1..(2 * TARGET)

Schemes == {"http", "https"}

Url(s, i, t) == [scheme |-> s, id |-> i, slash |-> t]

RawUrls == [scheme : Schemes, id : Ids, slash : BOOLEAN]

\* A link as it is written when it is posted: https, no trailing slash.
Canon(i) == Url("https", i, FALSE)

normalize_url(u) == [u EXCEPT !.scheme = "https", !.slash = FALSE]

fix_scheme(u) == IF u.scheme = "htps" THEN [u EXCEPT !.scheme = "https"] ELSE u

\* What GOFILE_RE matches inside a longer text: the id ends the match, so a
\* trailing slash is never part of it.
GOFILE_RE_match(u) == [u EXCEPT !.slash = FALSE]

\* ------------------------------------------------------- HTTP, detail page
\* One GET either fails in transport (a requests.RequestException, no status) or
\* answers with a status code.
Transport == [err |-> TRUE, code |-> 0]

Status(c) == [err |-> FALSE, code |-> c]

GetOutcomes == {Transport, Status(200), Status(404)}

GetFails(o) == o.err \/ o.code >= 400

\* no response and no error: the loop body never ran and the call returns None
NoResponse == [err |-> FALSE, code |-> 0]

\* _get_with_retry's loop that gives up at the first failed GET.
get_with_retry_from_no_retry(outs, attempt, max_retry) ==
    IF attempt > max_retry
    THEN [raised |-> FALSE, none |-> TRUE, what |-> NoResponse,
          gets |-> attempt - 1, sleeps |-> attempt - 1]
    ELSE [raised |-> GetFails(outs[attempt]), none |-> FALSE, what |-> outs[attempt],
          gets |-> attempt, sleeps |-> attempt - 1]

RECURSIVE get_with_retry_from(_, _, _)
\* the loop from the given attempt on: how the call ends (a response returned,
\* an error raised, or None), what is returned or raised, and the GETs and
\* sleeps made
get_with_retry_from(outs, attempt, max_retry) ==
    IF attempt > max_retry
    THEN [raised |-> FALSE, none |-> TRUE, what |-> NoResponse,
          gets |-> attempt - 1, sleeps |-> attempt - 1]
    ELSE IF ~GetFails(outs[attempt])
    THEN [raised |-> FALSE, none |-> FALSE, what |-> outs[attempt],
          gets |-> attempt, sleeps |-> attempt - 1]
    ELSE IF attempt = max_retry
    THEN [raised |-> TRUE, none |-> FALSE, what |-> outs[attempt],
          gets |-> attempt, sleeps |-> attempt - 1]
    ELSE get_with_retry_from(outs, attempt + 1, max_retry)

\* _get_with_retry: outs[k] is what the k-th GET would do.
get_with_retry(outs, max_retry) == get_with_retry_from(outs, 1, max_retry)

\* The phrases a body may hold, as written in it; Lower is str.lower().
Tokens == {"This content does not exist", "THIS CONTENT DOES NOT EXIST",
           "has been deleted by the owner", "Error", "not found"}

Lower(t) ==
    CASE t = "This content does not exist" -> "this content does not exist"
      [] t = "THIS CONTENT DOES NOT EXIST" -> "this content does not exist"
      [] t = "The content you are looking for could not be found"
             -> "the content you are looking for could not be found"
      [] t = "has been automatically removed" -> "has been automatically removed"
      [] t = "has been deleted by the owner" -> "has been deleted by the owner"
      [] t = "Error" -> "error"
      [] OTHER -> t

death_markers == {"This content does not exist",
                  "The content you are looking for could not be found",
                  "has been automatically removed",
                  "has been deleted by the owner"}

\* phrase in text.lower(), the phrase given in lower case
InLower(phrase, body) == \E t \in body.text : Lower(t) = phrase

BodyLens == {SHORT_BODY_LEN - 1, SHORT_BODY_LEN}

Bodies == [len : BodyLens, text : SUBSET Tokens]

\* What the detail page does when it is fetched: the outcome of each GET and the
\* body of the answer.
Responses == [gets : [1..DETAIL_MAX_RETRY -> GetOutcomes], body : Bodies]

\* How a call ends: it returns a value or an exception leaves it.
Returned(v) == [raised |-> FALSE, value |-> v]

Raised == [raised |-> TRUE, value |-> FALSE]

\* is_gofile_alive without its except clause: the fetch error reaches the caller.
is_gofile_alive_no_except(resp) ==
    LET r == get_with_retry(resp.gets, DETAIL_MAX_RETRY) IN
    IF r.raised THEN Raised
    ELSE IF \E m \in death_markers : InLower(Lower(m), resp.body) THEN Returned(FALSE)
    ELSE IF resp.body.len < SHORT_BODY_LEN
            /\ (InLower("error", resp.body) \/ InLower("not found", resp.body))
    THEN Returned(FALSE)
    ELSE Returned(TRUE)

is_gofile_alive(resp) ==
    LET r == get_with_retry(resp.gets, DETAIL_MAX_RETRY) IN
    IF r.raised \/ r.none THEN Returned(FALSE)
    ELSE IF \E m \in death_markers : InLower(Lower(m), resp.body) THEN Returned(FALSE)
    ELSE IF resp.body.len < SHORT_BODY_LEN
            /\ (InLower("error", resp.body) \/ InLower("not found", resp.body))
    THEN Returned(FALSE)
    ELSE Returned(TRUE)

\* The three kinds of answer the probes of a collection or of a preflight walk meet.
LivePage == [gets |-> [k \in 1..DETAIL_MAX_RETRY |-> Status(200)],
             body |-> [len |-> SHORT_BODY_LEN, text |-> {}]]

RemovedPage == [gets |-> [k \in 1..DETAIL_MAX_RETRY |-> Status(200)],
                body |-> [len |-> SHORT_BODY_LEN, text |-> {"THIS CONTENT DOES NOT EXIST"}]]

BlockedPage == [gets |-> [k \in 1..DETAIL_MAX_RETRY |-> Status(404)],
                body |-> [len |-> SHORT_BODY_LEN - 1, text |-> {}]]

ProbeResponses == {LivePage, RemovedPage, BlockedPage}

\* --------------------------------------------------------- listing pages
\* A listing page: its anchors in document order, each with the link it points
\* to and the download count written next to it, and the links that occur
\* only in script text.
Anchor(u, n) == [url |-> u, dl |-> n]

Page(as, sc) == [anchors |-> as, script |-> sc]

EmptyPage == Page(<<>>, {})

\* set(GOFILE_RE.findall(html)): the anchors' links are part of the text too
raw_urls(page) ==
    {GOFILE_RE_match(page.anchors[i].url) : i \in 1..Len(page.anchors)}
        \cup {GOFILE_RE_match(u) : u \in page.script}

\* the raw-scan links whose normalized form no anchor item carries.
raw_only_normalized(page) ==
    {u \in {fix_scheme(v) : v \in raw_urls(page)} :
        \A i \in 1..Len(page.anchors) :
            normalize_url(fix_scheme(page.anchors[i].url)) # normalize_url(u)}

\* the links of the raw scan that no anchor item carries
raw_only(page) ==
    {fix_scheme(u) : u \in raw_urls(page)}
        \ {fix_scheme(page.anchors[i].url) : i \in 1..Len(page.anchors)}

\* _extract_items_from_html; ord is the order in which the set raw_urls is
\* iterated, restricted to the links that get appended.
extract_items_from_html(page, ord) ==
    [i \in 1..Len(page.anchors) |->
        Anchor(fix_scheme(page.anchors[i].url), page.anchors[i].dl)]
    \o [i \in 1..Len(ord) |-> Anchor(ord[i], 0)]

\* How the fetch of one listing page goes: the GETs of the lightweight client,
\* what its answer holds (the page, or a challenge page without links), and what
\* the browser render gives (an error, the page, or a challenge page).
FetchEnvs ==
    [gets : [1..LIST_MAX_RETRY -> GetOutcomes],
     light : {"page", "challenge"},
     full : {"raise", "page", "challenge"}]

LightOk == [gets |-> [k \in 1..LIST_MAX_RETRY |-> Status(200)],
            light |-> "page", full |-> "raise"]

LightBlockedFullOk == [gets |-> [k \in 1..LIST_MAX_RETRY |-> Status(404)],
                       light |-> "challenge", full |-> "page"]

BothFail == [gets |-> [k \in 1..LIST_MAX_RETRY |-> Transport],
             light |-> "challenge", full |-> "raise"]

SomeFetchEnvs == {LightOk, LightBlockedFullOk, BothFail}

\* One iteration of fetch_listing_pages that renders every page in the browser.
fetch_one_page_full_always(page, env, ord) ==
    LET r == get_with_retry(env.gets, LIST_MAX_RETRY)
        light == IF r.raised \/ r.none \/ env.light # "page"
                 THEN <<>>
                 ELSE extract_items_from_html(page, ord)
        full == IF env.full = "page" THEN extract_items_from_html(page, ord) ELSE <<>>
    IN [items |-> full,
        gets |-> r.gets,
        lightRaised |-> r.raised,
        lightCount |-> Len(light),
        fulls |-> 1,
        fullRaised |-> env.full = "raise"]

\* One iteration of fetch_listing_pages: the items of the page, the GETs of the
\* lightweight client, whether it raised and how many items its answer gave,
\* how often the browser render was invoked and whether it raised.
fetch_one_page(page, env, ord) ==
    LET r == get_with_retry(env.gets, LIST_MAX_RETRY)
        light == IF r.raised \/ r.none \/ env.light # "page"
                 THEN <<>>
                 ELSE extract_items_from_html(page, ord)
        useFull == light = <<>>
        full == IF env.full = "page" THEN extract_items_from_html(page, ord) ELSE <<>>
    IN [items |-> IF useFull THEN full ELSE light,
        gets |-> r.gets,
        lightRaised |-> r.raised,
        lightCount |-> Len(light),
        fulls |-> IF useFull THEN 1 ELSE 0,
        fullRaised |-> useFull /\ env.full = "raise"]

\* site[p] is listing page p; a page past the last one answers without links
page_at(site, p) == IF p <= Len(site) THEN site[p] ELSE EmptyPage

env_at(envs, p) == IF p \in DOMAIN envs THEN envs[p] ELSE LightOk

ord_at(ords, p) == IF p \in DOMAIN ords THEN ords[p] ELSE <<>>

RECURSIVE fetch_pages_from(_, _, _, _, _)
\* for p in range(1, num_pages + 1): what was done for each page, in order
fetch_pages_from(site, p, num_pages, envs, ords) ==
    IF p > num_pages THEN <<>>
    ELSE <<[page |-> p,
            got |-> fetch_one_page(page_at(site, p), env_at(envs, p), ord_at(ords, p))]>>
            \o fetch_pages_from(site, p + 1, num_pages, envs, ords)

RECURSIVE results_of(_)
\* results.extend(items), page after page
results_of(trace) ==
    IF trace = <<>> THEN <<>> ELSE Head(trace).got.items \o results_of(Tail(trace))

\* fetch_listing_pages: envs[p] and ords[p] say how the fetch of page p goes.
fetch_listing_pages(site, num_pages, envs, ords) ==
    results_of(fetch_pages_from(site, 1, num_pages, envs, ords))

\* ---------------------------------------------------- candidate collector
\* best: a dict, kept as its keys in insertion order and its values.
EmptyBest == [keys |-> <<>>, val |-> <<>>]

KeyIndex(best, u) == CHOOSE k \in 1..Len(best.keys) : best.keys[k] = u

RECURSIVE merge_best_from(_, _, _)
merge_best_from(items, k, best) ==
    IF k > Len(items) THEN best
    ELSE LET url == items[k].url
             dl == items[k].dl
         IN IF url \notin Range(best.keys)
            THEN merge_best_from(items, k + 1,
                    [keys |-> Append(best.keys, url), val |-> Append(best.val, dl)])
            ELSE IF dl > best.val[KeyIndex(best, url)]
            THEN merge_best_from(items, k + 1,
                    [best EXCEPT !.val[KeyIndex(best, url)] = dl])
            ELSE merge_best_from(items, k + 1, best)

\* for url, dl in items: if url not in best or dl > best[url]: best[url] = dl
merge_best(items) == merge_best_from(items, 1, EmptyBest)

\* best.items()
best_items(best) == [k \in 1..Len(best.keys) |-> Anchor(best.keys[k], best.val[k])]

RECURSIVE insert_desc_unstable(_, _)
\* x goes before the entries of its own popularity
insert_desc_unstable(sorted, x) ==
    IF sorted = <<>> THEN <<x>>
    ELSE IF Head(sorted).dl > x.dl
    THEN <<Head(sorted)>> \o insert_desc_unstable(Tail(sorted), x)
    ELSE <<x>> \o sorted

RECURSIVE insert_desc(_, _)
\* x goes behind every entry that is at least as popular: the sort is stable
insert_desc(sorted, x) ==
    IF sorted = <<>> THEN <<x>>
    ELSE IF Head(sorted).dl >= x.dl
    THEN <<Head(sorted)>> \o insert_desc(Tail(sorted), x)
    ELSE <<x>> \o sorted

RECURSIVE sort_from(_, _, _)
sort_from(xs, k, acc) ==
    IF k > Len(xs) THEN acc ELSE sort_from(xs, k + 1, insert_desc(acc, xs[k]))

\* sorted(best.items(), key=lambda x: x[1], reverse=True)
sorted_desc(xs) == sort_from(xs, 1, <<>>)

\* the walk's test of one link, without the test against already_seen
walk_skips_chosen_only(url, seen, seen_now) == url \in seen_now

\* if url in already_seen or url in seen_now: continue
walk_skips(url, seen, seen_now) == url \in seen \/ url \in seen_now

RECURSIVE walk_from(_, _, _, _, _, _)
\* the loop over ranked; alive holds the links whose detail page answers alive
walk_from(ranked, k, uniq, seen, want, alive) ==
    IF k > Len(ranked) THEN uniq
    ELSE LET url == ranked[k].url IN
         IF walk_skips(url, seen, Range(uniq))
         THEN walk_from(ranked, k + 1, uniq, seen, want, alive)
         ELSE IF ~is_gofile_alive(IF url \in alive THEN LivePage ELSE RemovedPage).value
         THEN walk_from(ranked, k + 1, uniq, seen, want, alive)
         ELSE IF Len(uniq) + 1 >= want
         THEN Append(uniq, url)
         ELSE walk_from(ranked, k + 1, Append(uniq, url), seen, want, alive)

\* collect_fresh_gofile_urls, given the items fetch_listing_pages returned
collect_from_items(items, seen, want, alive) ==
    walk_from(sorted_desc(best_items(merge_best(items))), 1, <<>>, seen, want, alive)

\* ---------------------------------------------------------- state.json
\* _default_state(); NO_DATE stands for None (the dates of the model are >= 1)
default_state ==
    [posted_urls |-> <<>>,
     last_post_date |-> NO_DATE,
     posts_today |-> 0,
     recent_urls_24h |-> <<>>,
     line_seq |-> FIRST_LINE_SEQ]

\* now_jst = now_utc.astimezone(JST): its hour and its date
JstHour(now) == (now + JST_OFFSET) % 24

JstDate(now) == (now + JST_OFFSET) \div 24

RECURSIVE keep_recent(_, _)
keep_recent(items, cutoff) ==
    IF items = <<>> THEN <<>>
    ELSE IF Head(items).ts >= cutoff
    THEN <<Head(items)>> \o keep_recent(Tail(items), cutoff)
    ELSE keep_recent(Tail(items), cutoff)

purge_recent_24h(st, now) ==
    [st EXCEPT !.recent_urls_24h = keep_recent(st.recent_urls_24h, now - PURGE_HOURS)]

reset_if_new_day(st, now) ==
    IF st.last_post_date # JstDate(now)
    THEN [st EXCEPT !.last_post_date = JstDate(now), !.posts_today = 0]
    ELSE st

within_posting_window(now) ==
    WINDOW_FIRST_HOUR <= JstHour(now) /\ JstHour(now) <= WINDOW_LAST_HOUR

\* the limit test that lets a run start with the limit reached.
can_post_more_today_inclusive(st) == st.posts_today <= DAILY_LIMIT

can_post_more_today(st) == st.posts_today < DAILY_LIMIT

build_seen_set_from_state(st) ==
    {normalize_url(st.posted_urls[k]) : k \in 1..Len(st.posted_urls)}
        \cup {normalize_url(st.recent_urls_24h[k].url) : k \in 1..Len(st.recent_urls_24h)}

\* compose_fixed5_text: the numbered lines and the invisible character used;
\* the affiliate lines and the minute signature are left out
compose_fixed5_text(urls, seq, salt_idx) ==
    [invis |-> salt_idx % NUM_INVISIBLES,
     lines |-> [i \in 1..(IF Len(urls) < 5 THEN Len(urls) ELSE 5) |->
                    [seq |-> seq + i - 1, url |-> urls[i]]]]

NoText == [invis |-> 0, lines |-> <<>>]

RECURSIVE record_posted(_, _, _, _)
\* for u in preflight[:5]: posted_urls gets u if it lacks it, recent_urls_24h gets it
record_posted(st, urls, k, now) ==
    IF k > Len(urls) \/ k > 5 THEN st
    ELSE record_posted(
            [st EXCEPT
                !.posted_urls = IF urls[k] \in Range(@) THEN @ ELSE Append(@, urls[k]),
                !.recent_urls_24h = Append(@, [url |-> urls[k], ts |-> now])],
            urls, k + 1, now)

\* the update after a post that counts the posts, not the lines.
state_after_post_counts_posts(st, urls, seq, now) ==
    [record_posted(st, urls, 1, now) EXCEPT
        !.posts_today = st.posts_today + 1,
        !.line_seq = seq + 1]

\* the state update after a first attempt that succeeded (lines 331-336)
state_after_post(st, urls, seq, now) ==
    [record_posted(st, urls, 1, now) EXCEPT
        !.posts_today = st.posts_today + 1,
        !.line_seq = seq + 5]

\* a state update after the retry that leaves the day's counter as it is.
state_after_retry_uncounted(st, urls, seq, now) ==
    [record_posted(st, urls, 1, now) EXCEPT !.line_seq = seq + 5]

\* the state update after a retry that succeeded (lines 365-370)
state_after_retry(st, urls, seq, now) ==
    [record_posted(st, urls, 1, now) EXCEPT
        !.posts_today = st.posts_today + 1,
        !.line_seq = seq + 5]

\* ------------------------------------------------------------------ main
\* The listing site as a run may meet it. SiteLow lists 5 links on page 1, the
\* first of them twice, and one more on page 11, which only the deeper
\* collection reaches; the pages between list nothing. SiteHigh has one page.
SiteLow ==
    [p \in 1..(PAGES_FIRST + 1) |->
        IF p = 1
        THEN Page(<<Anchor(Url("http", 1, FALSE), 2 * TARGET)>>
                    \o [i \in 1..TARGET |-> Anchor(Canon(i), 2 * TARGET - i)], {})
        ELSE IF p = PAGES_FIRST + 1
        THEN Page(<<Anchor(Canon(TARGET + 1), 1)>>, {})
        ELSE EmptyPage]

SiteHigh ==
    <<Page([i \in 1..TARGET |-> Anchor(Canon(TARGET + i), 2 * TARGET - i)]
             \o <<Anchor(Url("http", 1, FALSE), 0)>>, {})>>

MainSites == {SiteLow, SiteHigh}

\* what the account's timeline shows of earlier posts
Timelines == {{}, {Canon(1)}}

\* How a post call ends: it returns, or an exception of some class leaves it, whose
\* text names duplicate content or not.
PostOk == [cls |-> "none", dup |-> FALSE]

PostExc(c, d) == [cls |-> c, dup |-> d]

\* client.create_tweet raises tweepy exceptions
StandardOutcomes ==
    {PostOk, PostExc("Forbidden", TRUE), PostExc("Forbidden", FALSE), PostExc("Other", FALSE)}

\* client.session.post(...).raise_for_status() raises requests.HTTPError
CommunityOutcomes ==
    {PostOk, PostExc("HTTPError", TRUE), PostExc("HTTPError", FALSE)}

PostOutcomes(comm) == IF comm THEN CommunityOutcomes ELSE StandardOutcomes

Late == elapsed > HARD_LIMIT_SEC

\* a blocking call takes some time
TimePasses ==
    \E d \in {0, TickSec} :
        elapsed' = IF elapsed > HARD_LIMIT_SEC THEN elapsed ELSE elapsed + d

\* The state file as the first run may find it: none yet; one post made
\* yesterday morning, 36 hours ago; 15 posts made today since 08:00 JST. Each is
\* the file a series of successful runs leaves.
PostedAt(st, ids, now) ==
    state_after_post(reset_if_new_day(purge_recent_24h(st, now), now),
                     [i \in 1..TARGET |-> Url("https", ids + i, FALSE)],
                     st.line_seq, now)

DiskOld == PostedAt(default_state, TARGET, StartClock - PURGE_HOURS - PURGE_HOURS \div 2)

\* post j of today (j = 1..15) was made at 08:00 JST + (4 * (j - 1)) \div 5 hours
\* and carried the links of the ids 5 * (j + 1) + 1 .. 5 * (j + 1) + 5
DiskBusy ==
    LET n == TARGET * (DAILY_LIMIT - 1)
        post(i) == (i - 1) \div TARGET + 1
    IN [posted_urls |-> [i \in 1..n |-> Url("https", 2 * TARGET + i, FALSE)],
        last_post_date |-> JstDate(StartClock),
        posts_today |-> DAILY_LIMIT - 1,
        recent_urls_24h |->
            [i \in 1..n |->
                [url |-> Url("https", 2 * TARGET + i, FALSE),
                 ts |-> StartClock - PURGE_HOURS \div 2 + (4 * (post(i) - 1)) \div 5]],
        line_seq |-> FIRST_LINE_SEQ + n]

InitialDisks == {default_state, DiskOld, DiskBusy}

M_Locals ==
    /\ clock = StartClock
    /\ pc = "idle"
    /\ state = default_state
    /\ elapsed = 0
    /\ listing = <<>>
    /\ already_seen = {}
    /\ candidates = <<>>
    /\ extra = <<>>
    /\ phase = 1
    /\ idx = 1
    /\ cur = Canon(1)
    /\ tested = {}
    /\ preflight = <<>>
    /\ start_seq = FIRST_LINE_SEQ
    /\ salt = 0
    /\ community = FALSE
    /\ status_text = NoText
    /\ runs = 0
    /\ outcome = "none"
    /\ posts = <<>>
    /\ attempts = <<>>
    /\ confirmed = {}
    /\ late_starts = {}
    /\ loaded = default_state
    /\ collects = <<>>
    /\ probed = <<>>

\* ------------------------------------------------- is_gofile_alive, one call
M_Init == disk = default_state /\ M_Locals

GA_Entered == ga_pc = "call" /\ ga_resp = LivePage /\ ga_ret = Returned(FALSE)

\* no call of _get_with_retry on its own
GR_Idle ==
    /\ gr_pc = "idle"
    /\ gr_outs = [k \in 1..LIST_MAX_RETRY |-> Status(200)]
    /\ gr_max = 0
    /\ gr_ret = get_with_retry(gr_outs, 0)

GA_Init == GA_Entered /\ GR_Idle

GA_Call ==
    /\ ga_pc = "call"
    /\ \E resp \in Responses :
          /\ ga_resp' = resp
          /\ ga_ret' = is_gofile_alive(resp)
    /\ ga_pc' = "done"
    /\ UNCHANGED <<grVars, arVars, cVars, mainVars>>

\* ------------------------------------------------------------ is_alive_retry
\* The state in which is_alive_retry(url, retries) is entered.
AR_Entered(retries) ==
    /\ ar_pc = "loop"
    /\ ar_retries = retries
    /\ ar_i = 0
    /\ ar_ret = FALSE
    /\ ar_log = <<>>
    /\ ar_sleeps = 0
    /\ ar_last = "none"

AR_Idle ==
    /\ ar_pc = "idle"
    /\ ar_retries = 0
    /\ ar_i = 0
    /\ ar_ret = FALSE
    /\ ar_log = <<>>
    /\ ar_sleeps = 0
    /\ ar_last = "none"

\* is_alive_retry(url, retries) is called
AR_Enter(retries) ==
    /\ ar_pc' = "loop"
    /\ ar_retries' = retries
    /\ ar_i' = 0
    /\ ar_ret' = FALSE
    /\ ar_log' = <<>>
    /\ ar_sleeps' = 0
    /\ ar_last' = "none"

\* the caller has taken the result
AR_Leave ==
    /\ ar_pc' = "idle"
    /\ ar_retries' = 0
    /\ ar_i' = 0
    /\ ar_ret' = FALSE
    /\ ar_log' = <<>>
    /\ ar_sleeps' = 0
    /\ ar_last' = "none"

\* for i in range(retries + 1): ... return False
AR_LoopHead ==
    /\ ar_pc = "loop"
    /\ IF ar_i < ar_retries + 1
       THEN ar_pc' = "call" /\ ar_ret' = ar_ret
       ELSE ar_pc' = "ret" /\ ar_ret' = FALSE
    /\ UNCHANGED <<ar_retries, ar_i, ar_log, ar_sleeps, ar_last>>

\* is_alive_retry's call of is_gofile_alive that never returns early.
AR_Call_NoEarlyReturn ==
    /\ ar_pc = "call"
    /\ \E resp \in ProbeResponses :
          LET alive == is_gofile_alive(resp).value IN
          /\ ar_log' = Append(ar_log, alive)
          /\ ar_last' = "call"
          /\ IF ar_i < ar_retries
             THEN ar_pc' = "sleep" /\ ar_i' = ar_i /\ ar_ret' = alive
             ELSE ar_pc' = "ret" /\ ar_i' = ar_i /\ ar_ret' = alive
    /\ UNCHANGED <<ar_retries, ar_sleeps>>

\* if is_gofile_alive(url): return True; if i < retries: sleep
AR_Call ==
    /\ ar_pc = "call"
    /\ \E resp \in ProbeResponses :
          LET alive == is_gofile_alive(resp).value IN
          /\ ar_log' = Append(ar_log, alive)
          /\ ar_last' = "call"
          /\ IF alive
             THEN ar_pc' = "ret" /\ ar_ret' = TRUE /\ ar_i' = ar_i
             ELSE IF ar_i < ar_retries
             THEN ar_pc' = "sleep" /\ ar_ret' = ar_ret /\ ar_i' = ar_i
             ELSE ar_pc' = "loop" /\ ar_ret' = ar_ret /\ ar_i' = ar_i + 1
    /\ UNCHANGED <<ar_retries, ar_sleeps>>

\* time.sleep(delay_sec), then the next iteration
AR_Sleep ==
    /\ ar_pc = "sleep"
    /\ ar_sleeps' = ar_sleeps + 1
    /\ ar_last' = "sleep"
    /\ ar_i' = ar_i + 1
    /\ ar_pc' = "loop"
    /\ UNCHANGED <<ar_retries, ar_ret, ar_log>>

\* ------------------------------------- collect_fresh_gofile_urls, one call
\* The listings a call is tried on: every one-page listing of up to MaxAnchors
\* anchors over a few links and counts, and some listings of several pages.
GenUrls == {Url("http", 1, TRUE), Url("https", 1, FALSE), Url("https", 2, FALSE)}

GenCounts == {0, 5}

GenAnchors == {Anchor(u, n) : u \in GenUrls, n \in GenCounts}

GenPages ==
    {Page(as, sc) :
        as \in UNION {[1..n -> GenAnchors] : n \in 0..MaxAnchors},
        sc \in {{}, {Url("https", 3, FALSE)}}}

\* anchors with the counts 10, 5, 20
SiteCounts ==
    <<Page(<<Anchor(Canon(1), 10), Anchor(Canon(2), 5), Anchor(Canon(3), 20)>>, {})>>

\* a link sighted with several counts, on several pages, and links of equal count
SiteTies ==
    <<Page(<<Anchor(Canon(1), 5), Anchor(Canon(2), 5), Anchor(Canon(3), 9),
             Anchor(Canon(2), 9)>>, {Canon(4)}),
      Page(<<Anchor(Canon(4), 5), Anchor(Canon(1), 2)>>, {Url("http", 5, FALSE), Canon(6)})>>

CollectSites == {<<pg>> : pg \in GenPages} \cup {SiteCounts, SiteTies}

CollectSeen ==
    {{}, {Canon(1)}, {Url("http", 1, TRUE)}, {Canon(1), Canon(2)}, {Canon(3), Canon(4)}}

SiteUrls(site) ==
    UNION {{site[p].anchors[i].url : i \in 1..Len(site[p].anchors)}
             \cup raw_urls(site[p]) : p \in 1..Len(site)}

C_Idle ==
    /\ c_pc = "idle"
    /\ c_seen = {}
    /\ c_want = 0
    /\ c_pages = 0
    /\ c_site = <<>>
    /\ c_items = <<>>
    /\ c_alive = {}
    /\ c_out = <<>>
    /\ c_trace = <<>>

CollectInit ==
    /\ c_pc = "call"
    /\ c_seen \in CollectSeen
    /\ c_want \in 0..MaxWant
    /\ c_pages \in 0..MaxPages
    /\ c_site \in CollectSites
    /\ c_items = <<>>
    /\ c_alive = {}
    /\ c_out = <<>>
    /\ c_trace = <<>>
    /\ GA_Init
    /\ AR_Idle
    /\ M_Init

\* the orders in which the raw-scan sets of the pages of a listing may be iterated
OrdChoices(site) ==
    {o \in [1..Len(site) -> UNION {SeqsOver(raw_only(site[p])) : p \in 1..Len(site)}] :
        \A p \in 1..Len(site) : o[p] \in SeqsOver(raw_only(site[p]))}

ItemUrls(items) == {items[k].url : k \in 1..Len(items)}

\* items = fetch_listing_pages(num_pages=num_pages)
C_Fetch ==
    /\ c_pc = "call"
    /\ \E envs \in [1..Len(c_site) -> SomeFetchEnvs] :
       \E ords \in OrdChoices(c_site) :
          /\ c_trace' = fetch_pages_from(c_site, 1, c_pages, envs, ords)
          /\ c_items' = fetch_listing_pages(c_site, c_pages, envs, ords)
    /\ c_pc' = "fetched"
    /\ UNCHANGED <<c_seen, c_want, c_pages, c_site, c_alive, c_out>>
    /\ UNCHANGED <<gaVars, arVars, mainVars>>

\* the merge, the sort and the walk over ranked, each link probed once
C_Walk ==
    /\ c_pc = "fetched"
    /\ \E alive \in SUBSET ItemUrls(c_items) :
          /\ c_alive' = alive
          /\ c_out' = collect_from_items(c_items, c_seen, c_want, alive)
    /\ c_pc' = "done"
    /\ UNCHANGED <<c_seen, c_want, c_pages, c_site, c_items, c_trace>>
    /\ UNCHANGED <<gaVars, arVars, mainVars>>

CollectNext == C_Fetch \/ C_Walk

SpecCollect == CollectInit /\ [][CollectNext]_vars

ProbeInit ==
    /\ GA_Init
    /\ \E r \in -1..MaxRetries : AR_Entered(r)
    /\ C_Idle
    /\ M_Init

ProbeNext ==
    \/ GA_Call
    \/ (AR_LoopHead /\ UNCHANGED <<gaVars, cVars, mainVars>>)
    \/ (AR_Call /\ UNCHANGED <<gaVars, cVars, mainVars>>)
    \/ (AR_Sleep /\ UNCHANGED <<gaVars, cVars, mainVars>>)

SpecProbe == ProbeInit /\ [][ProbeNext]_vars

\* ------------------------------------------------ _get_with_retry, one call
\* max_retry from 0 up to the 4 of the listing fetch (the detail fetch passes 3),
\* and every way the GETs may go
GetInit ==
    /\ gr_pc = "call"
    /\ gr_outs \in [1..LIST_MAX_RETRY -> GetOutcomes]
    /\ gr_max \in 0..LIST_MAX_RETRY
    /\ gr_ret = get_with_retry(gr_outs, 0)
    /\ GA_Entered
    /\ AR_Idle
    /\ C_Idle
    /\ M_Init

GR_Call ==
    /\ gr_pc = "call"
    /\ gr_ret' = get_with_retry(gr_outs, gr_max)
    /\ gr_pc' = "done"
    /\ UNCHANGED <<gr_outs, gr_max, ga_pc, ga_resp, ga_ret, arVars, cVars, mainVars>>

GetNext == GR_Call

SpecGet == GetInit /\ [][GetNext]_vars

\* ------------------------------------------------------- main, the run
\* the locals and the observations of a run, as they are before a run
RunLocalsReset ==
    /\ elapsed' = 0
    /\ listing' = <<>>
    /\ already_seen' = {}
    /\ candidates' = <<>>
    /\ extra' = <<>>
    /\ phase' = 1
    /\ idx' = 1
    /\ cur' = Canon(1)
    /\ tested' = {}
    /\ preflight' = <<>>
    /\ start_seq' = FIRST_LINE_SEQ
    /\ salt' = 0
    /\ community' = FALSE
    /\ status_text' = NoText
    /\ attempts' = <<>>
    /\ confirmed' = {}
    /\ late_starts' = {}
    /\ loaded' = default_state
    /\ collects' = <<>>
    /\ probed' = <<>>

\* the run is over: main returns or an exception leaves it
EndRun(how) ==
    /\ pc' = "ended"
    /\ outcome' = how

\* the process exits; the next run starts from the state file alone
M_Exit ==
    /\ pc = "ended"
    /\ pc' = "idle"
    /\ outcome' = "none"
    /\ state' = default_state
    /\ RunLocalsReset
    /\ UNCHANGED <<disk, clock, runs, posts>>

\* lines 219-251: the clock is read, the state is loaded, purged and reset, the
\* two gates are passed, and the seen set is built from the state and the
\* timeline (get_client or the timeline fetch may raise).
M_Start ==
    /\ pc = "idle"
    /\ runs < MaxRuns
    /\ runs' = runs + 1
    /\ \E k \in 0..MaxTicks :
          /\ clock + k * TickHours <= StartClock + MaxTicks * TickHours
          /\ clock' = clock + k * TickHours
    /\ state' = reset_if_new_day(purge_recent_24h(disk, clock'), clock')
    /\ IF ~within_posting_window(clock')
       THEN EndRun("window") /\ UNCHANGED <<elapsed, listing, already_seen>>
       ELSE IF ~can_post_more_today(state')
       THEN EndRun("limit") /\ UNCHANGED <<elapsed, listing, already_seen>>
       ELSE \/ /\ \E tl \in Timelines :
                    already_seen' = build_seen_set_from_state(state') \cup tl
               /\ TimePasses
               /\ listing' \in MainSites
               /\ pc' = "collect"
               /\ outcome' = "running"
            \/ EndRun("crash") /\ UNCHANGED <<elapsed, listing, already_seen>>
    /\ loaded' = disk
    /\ UNCHANGED <<disk, candidates, extra, phase, idx, cur, tested, preflight,
                   start_seq, salt, community, status_text,
                   posts, attempts, confirmed, late_starts, collects, probed>>

\* the links of the listing that answer alive to the collector: all, or all but one
AliveChoices(st) == {SiteUrls(st)} \cup {SiteUrls(st) \ {u} : u \in SiteUrls(st)}

\* how the fetches of a collection go: every page is fetched, or both
\* strategies fail on one of the pages that list something
MainEnvs(site) ==
    {[p \in 1..Len(site) |-> IF p = bad THEN BothFail ELSE LightOk] :
        bad \in {0} \cup {p \in 1..Len(site) : site[p] # EmptyPage}}

\* collect_fresh_gofile_urls as main calls it: the listing of this run, fetched
\* somehow, some of its links answering alive
Collected(seen, want, num_pages) ==
    {collect_from_items(fetch_listing_pages(listing, num_pages, envs, ords),
                        seen, want, alive) :
        envs \in MainEnvs(listing),
        ords \in OrdChoices(listing),
        alive \in AliveChoices(listing)}

\* a call of the collector as it is observed: what it was asked for, how many
\* links it returned, where the run stood (the preflight walk ended or not yet
\* begun, the links accepted so far) and whether the deadline had passed
CollectorCall(want, got) ==
    [want |-> want, got |-> Len(got), after |-> pc,
     accepted |-> Len(preflight), late |-> Late]

\* lines 254-265: the deadline check, the first collection, the test for 5
M_Collect ==
    /\ pc = "collect"
    /\ IF Late
       THEN EndRun("budget") /\ UNCHANGED <<candidates, elapsed, collects>>
       ELSE /\ candidates' \in Collected(already_seen, WANT_FIRST, PAGES_FIRST)
            /\ collects' = Append(collects, CollectorCall(WANT_FIRST, candidates'))
            /\ TimePasses
            /\ IF Len(candidates') < 5
               THEN EndRun("few")
               ELSE pc' = "walk" /\ outcome' = outcome
    /\ UNCHANGED <<disk, clock, state, listing, already_seen, extra, phase, idx, cur, tested,
                   preflight, start_seq, salt, community, status_text,
                   runs, posts, attempts, confirmed, late_starts, loaded, probed>>
    /\ UNCHANGED arVars

\* add_if_alive's test that lets a seen link through.
add_if_alive_skips_unseen_only(n) == n \in tested \/ n \in Range(preflight)

\* the test of add_if_alive that leaves tested out.
add_if_alive_skips_untested(n) == n \in already_seen \/ n \in Range(preflight)

\* if n in tested or n in already_seen or n in preflight: return False
add_if_alive_skips(n) == n \in tested \/ n \in already_seen \/ n \in Range(preflight)

\* the walk over candidates (phase 1) or extra (phase 2)
Walked == IF phase = 1 THEN candidates ELSE extra

\* the loop test that leaves the length of preflight out.
walk_stops_late_only == Late

\* if len(preflight) >= target or (time.monotonic() - start_ts) > HARD_LIMIT_SEC: break
walk_stops == Len(preflight) >= TARGET \/ Late

\* lines 284-287 and 296-299, one iteration, with add_if_alive up to its call of
\* is_alive_retry (lines 272-279)
M_WalkStep ==
    /\ pc = "walk"
    /\ IF idx > Len(Walked) \/ walk_stops
       THEN /\ pc' = IF phase = 1 THEN "extra" ELSE "assemble"
            /\ UNCHANGED <<idx, cur, tested, arVars>>
       ELSE LET n == normalize_url(Walked[idx]) IN
            IF add_if_alive_skips(n)
            THEN /\ idx' = idx + 1
                 /\ UNCHANGED <<pc, cur, tested, arVars>>
            ELSE /\ tested' = tested \cup {n}
                 /\ cur' = n
                 /\ pc' = "probe"
                 /\ AR_Enter(PREFLIGHT_RETRIES)
                 /\ UNCHANGED idx
    /\ probed' = IF pc' = "probe"
                  THEN Append(probed, [url |-> cur', tested |-> tested', pass |-> phase])
                  ELSE probed
    /\ UNCHANGED <<disk, clock, state, elapsed, listing, already_seen, candidates, extra, phase,
                   preflight, start_seq, salt, community, status_text,
                   runs, outcome, posts, attempts, confirmed, late_starts, loaded, collects>>

\* is_alive_retry's steps inside add_if_alive; a probe and a sleep take time. A
\* probe that starts after the deadline is noted, and so is the link for which
\* is_alive_retry returns true.
M_ProbeLoop ==
    /\ pc = "probe"
    /\ AR_LoopHead
    /\ UNCHANGED mainVars

M_ProbeCall ==
    /\ pc = "probe"
    /\ AR_Call
    /\ TimePasses
    /\ late_starts' = IF Late THEN late_starts \cup {"probe"} ELSE late_starts
    /\ confirmed' = IF ar_pc' = "ret" /\ ar_ret' THEN confirmed \cup {cur} ELSE confirmed
    /\ UNCHANGED <<disk, clock, pc, state, listing, already_seen, candidates, extra, phase, idx,
                   cur, tested, preflight, start_seq, salt, community, status_text,
                   runs, outcome, posts, attempts, loaded, collects, probed>>

M_ProbeSleep ==
    /\ pc = "probe"
    /\ AR_Sleep
    /\ TimePasses
    /\ UNCHANGED <<disk, clock, pc, state, listing, already_seen, candidates, extra, phase, idx,
                   cur, tested, preflight, start_seq, salt, community, status_text, obsVars>>

\* lines 279-282: is_alive_retry has returned
M_ProbeDone ==
    /\ pc = "probe"
    /\ ar_pc = "ret"
    /\ preflight' = IF ar_ret THEN Append(preflight, cur) ELSE preflight
    /\ idx' = idx + 1
    /\ pc' = "walk"
    /\ AR_Leave
    /\ UNCHANGED <<disk, clock, state, elapsed, listing, already_seen, candidates, extra, phase,
                   cur, tested, start_seq, salt, community, status_text, obsVars>>

\* the test before the second collection that leaves the deadline out.
wants_extra_any_time == Len(preflight) < TARGET

\* if len(preflight) < target and (time.monotonic() - start_ts) <= HARD_LIMIT_SEC
wants_extra == Len(preflight) < TARGET /\ ~Late

\* lines 289-295: the second, deeper collection
M_Extra ==
    /\ pc = "extra"
    /\ IF wants_extra
       THEN /\ extra' \in Collected(already_seen \cup Range(preflight) \cup tested,
                                   WANT_EXTRA, PAGES_EXTRA)
            /\ collects' = Append(collects, CollectorCall(WANT_EXTRA, extra'))
            /\ TimePasses
            /\ phase' = 2
            /\ idx' = 1
            /\ pc' = "walk"
       ELSE /\ pc' = "assemble"
            /\ UNCHANGED <<extra, elapsed, phase, idx, collects>>
    /\ UNCHANGED <<disk, clock, state, listing, already_seen, candidates, cur, tested,
                   preflight, start_seq, salt, community, status_text,
                   runs, outcome, posts, attempts, confirmed, late_starts, loaded, probed>>
    /\ UNCHANGED arVars

\* the test before the post that lets a shorter list through.
assembled_one_short == Len(preflight) >= TARGET - 1

\* lines 301-302, negated
assembled == Len(preflight) >= TARGET

\* lines 301-319: without 5 links the state is saved and the run ends; with 5
\* the text is composed (the minute of the hour decides the salt) and
\* X_COMMUNITY_ID is read. The listing, candidates, extra and the loop counters
\* are not read again, and are dropped here.
M_Assemble ==
    /\ pc = "assemble"
    /\ IF ~assembled
       THEN /\ disk' = state
            /\ EndRun("noassemble")
            /\ UNCHANGED <<start_seq, salt, community, status_text>>
       ELSE /\ start_seq' = state.line_seq
            /\ \E minute \in {0, 1} :
                  salt' = (JstHour(clock) + minute) % NUM_INVISIBLES
            /\ status_text' = compose_fixed5_text(preflight, start_seq', salt')
            /\ community' \in BOOLEAN
            /\ pc' = "post"
            /\ UNCHANGED <<disk, outcome>>
    /\ listing' = <<>>
    /\ candidates' = <<>>
    /\ extra' = <<>>
    /\ phase' = 1
    /\ idx' = 1
    /\ cur' = Canon(1)
    /\ UNCHANGED <<clock, state, elapsed, already_seen,
                   tested, preflight, runs, posts, attempts, confirmed, late_starts,
                   loaded, collects, probed>>
    /\ UNCHANGED arVars

TextUrls(text) == {text.lines[i].url : i \in 1..Len(text.lines)}

Attempt(out) == [community |-> community, text |-> status_text, out |-> out]

\* lines 330-339: the first attempt succeeded
PostSucceeded ==
    /\ state' = state_after_post(state, preflight, start_seq, clock)
    /\ disk' = state'
    /\ posts' = Append(posts, TextUrls(status_text))
    /\ EndRun("posted")

\* lines 365-372: the retry succeeded
RetrySucceeded ==
    /\ state' = state_after_retry(state, preflight, start_seq, clock)
    /\ disk' = state'
    /\ posts' = Append(posts, TextUrls(status_text))
    /\ EndRun("posted")

\* a failed post that saves the state before the exception leaves main.
PostFailed_Saves ==
    /\ disk' = state
    /\ EndRun("fatal")
    /\ UNCHANGED <<state, posts>>

\* lines 373-381: the exception is printed and raised again; nothing is saved
PostFailed ==
    /\ EndRun("fatal")
    /\ UNCHANGED <<disk, state, posts>>

\* except tweepy.Forbidden as e: ... if "duplicate content" in s
handler_retries(exc) == exc.cls = "Forbidden" /\ exc.dup

\* lines 320-356, 376-381: the first post attempt and its handlers
M_Post ==
    /\ pc = "post"
    /\ \E out \in PostOutcomes(community) :
          /\ attempts' = Append(attempts, Attempt(out))
          /\ IF out = PostOk
             THEN PostSucceeded /\ UNCHANGED <<salt, status_text>>
             ELSE IF handler_retries(out)
             THEN /\ salt' = (salt + 1) % NUM_INVISIBLES
                  /\ status_text' = compose_fixed5_text(preflight, start_seq, salt')
                  /\ pc' = "retry"
                  /\ UNCHANGED <<disk, state, posts, outcome>>
             ELSE PostFailed /\ UNCHANGED <<salt, status_text>>
    /\ UNCHANGED <<clock, elapsed, listing, already_seen, candidates, extra, phase, idx, cur,
                   tested, preflight, start_seq, community, runs, confirmed, late_starts,
                   loaded, collects, probed>>
    /\ UNCHANGED arVars

\* lines 357-375: the resalted second attempt
M_RetryPost ==
    /\ pc = "retry"
    /\ \E out \in PostOutcomes(community) :
          /\ attempts' = Append(attempts, Attempt(out))
          /\ IF out = PostOk
             THEN RetrySucceeded
             ELSE PostFailed
    /\ UNCHANGED <<clock, elapsed, listing, already_seen, candidates, extra, phase, idx, cur,
                   tested, preflight, start_seq, salt, community, status_text,
                   runs, confirmed, late_starts, loaded, collects, probed>>
    /\ UNCHANGED arVars

Init ==
    /\ disk \in InitialDisks
    /\ M_Locals
    /\ GA_Init
    /\ AR_Idle
    /\ C_Idle

Next ==
    \/ (M_Start /\ UNCHANGED <<gaVars, arVars, cVars>>)
    \/ (M_Collect /\ UNCHANGED <<gaVars, cVars>>)
    \/ (M_WalkStep /\ UNCHANGED <<gaVars, cVars>>)
    \/ (M_ProbeLoop /\ UNCHANGED <<gaVars, cVars>>)
    \/ (M_ProbeCall /\ UNCHANGED <<gaVars, cVars>>)
    \/ (M_ProbeSleep /\ UNCHANGED <<gaVars, cVars>>)
    \/ (M_ProbeDone /\ UNCHANGED <<gaVars, cVars>>)
    \/ (M_Extra /\ UNCHANGED <<gaVars, cVars>>)
    \/ (M_Assemble /\ UNCHANGED <<gaVars, cVars>>)
    \/ (M_Post /\ UNCHANGED <<gaVars, cVars>>)
    \/ (M_RetryPost /\ UNCHANGED <<gaVars, cVars>>)
    \/ (M_Exit /\ UNCHANGED <<gaVars, arVars, cVars>>)

Spec == Init /\ [][Next]_vars

\* ======================================================================
\* Properties
\* ======================================================================

\* ---- C3
\* the links of the fetched items that are in already_seen and answer alive
SeenAliveListed == c_seen \cap ItemUrls(c_items) \cap c_alive

\* C3: the list collect_fresh_gofile_urls returns holds no element of
\* already_seen and holds no link twice.
C3_FreshAndDistinct ==
    c_pc = "done" =>
        /\ \A i \in 1..Len(c_out) : c_out[i] \notin c_seen
        /\ NoDup(c_out)

\* a call that met a live link of already_seen on the listing and returned others
C3_Witness ==
    /\ c_pc = "done"
    /\ SeenAliveListed # {}
    /\ Len(c_out) >= 2

\* ---- C4
\* already_seen = {https://gofile.io/d/1}; the listing holds http://gofile.io/d/1/
\* and https://gofile.io/d/2, the page is fetched and both links answer alive
C4_Scenario ==
    /\ c_seen = {Canon(1)}
    /\ Len(c_site) = 1
    /\ c_site[1].script = {}
    /\ Len(c_site[1].anchors) = 2
    /\ {c_site[1].anchors[i].url : i \in 1..2} = {Url("http", 1, TRUE), Canon(2)}
    /\ c_items # <<>>
    /\ c_alive = ItemUrls(c_items)
    /\ c_want >= 1

\* C4: identity in the collector is the normalized link: in the scenario the
\* call returns the link of id 2 only.
C4_NormalizedIdentity ==
    (c_pc = "done" /\ C4_Scenario) => c_out = <<Canon(2)>>

\* ---- C5
\* the highest count among the sightings of u in the fetched items
Popularity(u) ==
    CHOOSE n \in {c_items[k].dl : k \in {k \in 1..Len(c_items) : c_items[k].url = u}} :
        \A k \in 1..Len(c_items) : c_items[k].url = u => c_items[k].dl <= n

\* the place of the first sighting of u in the fetched items
FirstSighting(u) ==
    CHOOSE k \in 1..Len(c_items) :
        /\ c_items[k].url = u
        /\ \A j \in 1..(k - 1) : c_items[j].url # u

\* C5: the returned links are in descending order of popularity (the highest
\* count over all sightings), links of equal popularity in the order of their
\* first sighting; counts 10, 5, 20 give the order 20, 10, 5.
C5_RankOrder ==
    c_pc = "done" =>
        /\ \A i, j \in 1..Len(c_out) :
              i < j =>
                \/ Popularity(c_out[i]) > Popularity(c_out[j])
                \/ /\ Popularity(c_out[i]) = Popularity(c_out[j])
                   /\ FirstSighting(c_out[i]) < FirstSighting(c_out[j])
        /\ (/\ c_site = SiteCounts
            /\ c_items # <<>>
            /\ c_alive = ItemUrls(c_items)
            /\ c_seen \cap ItemUrls(c_items) = {}
            /\ c_want >= 3)
              => c_out = <<Canon(3), Canon(1), Canon(2)>>

\* link 2 is sighted with 5 and with 9, link 3 with 9 after it, link 1 with 5:
\* the call returns 2, 3, 1
C5_Witness ==
    /\ c_pc = "done"
    /\ c_site = SiteTies
    /\ Len(c_out) >= 3
    /\ c_out[1] = Canon(2)
    /\ c_out[2] = Canon(3)
    /\ c_out[3] = Canon(1)

\* ---- C6
\* C6: for every integer want, want = 0 included, the call returns at most
\* want entries.
C6_AtMostWant == c_pc = "done" => Len(c_out) <= c_want

\* ---- C8
\* every GET of the detail-page fetch failed
FetchFailed(resp) == \A k \in 1..DETAIL_MAX_RETRY : GetFails(resp.gets[k])

HasRemovalPhrase(body) == \E t \in body.text, m \in death_markers : Lower(t) = Lower(m)

ShortErrorBody(body) ==
    /\ body.len < SHORT_BODY_LEN
    /\ \E t \in body.text : Lower(t) \in {"error", "not found"}

\* C8: is_gofile_alive never raises; it returns false when the fetch fails, when
\* the body holds a removal phrase in any case, and when the body is shorter
\* than 500 characters and holds "error" or "not found"; otherwise true.
C8_AliveFailClosed ==
    ga_pc = "done" =>
        /\ ~ga_ret.raised
        /\ ga_ret.value =
              ~(\/ FetchFailed(ga_resp)
                \/ HasRemovalPhrase(ga_resp.body)
                \/ ShortErrorBody(ga_resp.body))

\* the fetch fails on every GET, and the call returns false
C8_Witness ==
    /\ ga_pc = "done"
    /\ FetchFailed(ga_resp)
    /\ ga_resp.body.text = {}
    /\ ga_ret = Returned(FALSE)

\* ---- C9
AllDead(log) == \A k \in 1..Len(log) : ~log[k]

\* C9: is_alive_retry calls is_gofile_alive at most retries+1 times, makes no
\* call after one that reported alive, returns true at the first call that reports
\* alive, returns false only after retries+1 calls that all reported dead, and
\* sleeps only between two calls.
C9_RetryContract ==
    /\ Len(ar_log) <= Max2(ar_retries + 1, 0)
    /\ AllDead(SubSeq(ar_log, 1, Len(ar_log) - 1))
    /\ ar_sleeps <= Max2(Len(ar_log) - 1, 0) + (IF ar_last = "sleep" THEN 1 ELSE 0)
    /\ ar_pc = "ret" =>
          /\ ar_last # "sleep"
          /\ ar_sleeps = Max2(Len(ar_log) - 1, 0)
          /\ ar_ret => Len(ar_log) >= 1 /\ ar_log[Len(ar_log)]
          /\ ~ar_ret => Len(ar_log) = Max2(ar_retries + 1, 0) /\ AllDead(ar_log)

\* a dead answer, a sleep, then an alive answer with a retry still left
C9_Witness ==
    /\ ar_pc = "ret"
    /\ ar_ret
    /\ ar_retries = 2
    /\ ar_log = <<FALSE, TRUE>>
    /\ ar_sleeps = 1

\* ---- C1
Posting == pc \in {"post", "retry"}

\* C1: a post is attempted only with exactly 5 links in preflight, pairwise
\* distinct, normalized, each reported alive by is_alive_retry in this run, and
\* the text posted carries these 5; with fewer than 5 no post is attempted.
C1_PostOnlyFive ==
    /\ (Posting \/ attempts # <<>>) =>
          /\ Len(preflight) = 5
          /\ NoDup(preflight)
          /\ \A i \in 1..Len(preflight) :
                /\ preflight[i] = normalize_url(preflight[i])
                /\ preflight[i] \in confirmed
          /\ \A k \in 1..Len(attempts) :
                /\ Len(attempts[k].text.lines) = 5
                /\ \A i \in 1..5 : attempts[k].text.lines[i].url = preflight[i]
    /\ outcome = "noassemble" => Len(preflight) < 5 /\ attempts = <<>>

\* a run that posted
C1_Witness ==
    /\ pc = "ended"
    /\ outcome = "posted"
    /\ Len(attempts) = 1
    /\ Len(preflight) = 5

\* ---- C2
Normalized(S) == {normalize_url(u) : u \in S}

InRun == pc \in {"collect", "walk", "probe", "extra", "assemble", "post", "retry"}

\* C2: over the runs that share the state file no normalized link is in two
\* successful posts; during a run every link of posted_urls is in already_seen
\* and none is in preflight.
C2_NoRepost ==
    /\ \A i, j \in 1..Len(posts) :
          i # j => Normalized(posts[i]) \cap Normalized(posts[j]) = {}
    /\ InRun =>
          /\ Normalized(Range(disk.posted_urls)) \subseteq already_seen
          /\ Normalized(Range(preflight)) \cap Normalized(Range(disk.posted_urls)) = {}

\* a later run, one link short of 5, walks onto a candidate whose normalized form
\* an earlier run posted
C2_Witness ==
    /\ pc = "walk"
    /\ Len(posts) = 1
    /\ phase = 1
    /\ Len(preflight) = TARGET - 1
    /\ ~Late
    /\ idx <= Len(candidates)
    /\ normalize_url(candidates[idx]) \in posts[1]

\* ---- C7
\* C7: once the deadline has passed, no collection call, no page fetch and no
\* aliveness probe is started in the run.
C7_NoWorkAfterDeadline == late_starts = {}

\* ---- C10
\* C10: for both posting operations a first attempt that fails with the
\* duplicate-content signal is followed by exactly one retry with another salt,
\* any other failure by none, and a run makes at most two attempts.
C10_DuplicateRetriesOnce ==
    /\ Len(attempts) <= 2
    /\ (pc = "ended" /\ attempts # <<>>) =>
          IF attempts[1].out.dup
          THEN /\ Len(attempts) = 2
               /\ attempts[2].text.invis # attempts[1].text.invis
          ELSE Len(attempts) = 1

\* ---- C11
\* the state main holds after load_state, purge_recent_24h and reset_if_new_day
StateAtStart == reset_if_new_day(purge_recent_24h(loaded, clock), clock)

RecordsOf(urls, now) == [i \in 1..Len(urls) |-> [url |-> urls[i], ts |-> now]]

\* C11: when the first attempt reports duplicate content and the retry succeeds,
\* the state file is what a first-attempt success writes: the 5 links of
\* preflight added to posted_urls and to the recent records, posts_today grown
\* by 1 and line_seq by 5.
C11_RetryUpdatesAsFirst ==
    (pc = "ended" /\ outcome = "posted" /\ Len(attempts) = 2) =>
        /\ disk = state_after_post(StateAtStart, preflight, loaded.line_seq, clock)
        /\ disk.posted_urls = loaded.posted_urls \o preflight
        /\ disk.recent_urls_24h = StateAtStart.recent_urls_24h \o RecordsOf(preflight, clock)
        /\ disk.posts_today = StateAtStart.posts_today + 1
        /\ disk.line_seq = loaded.line_seq + 5

\* a run over a state file with earlier posts whose retry succeeded
C11_Witness ==
    /\ pc = "ended"
    /\ outcome = "posted"
    /\ Len(attempts) = 2
    /\ attempts[1].out.dup
    /\ attempts[2].out = PostOk
    /\ loaded = DiskBusy
    /\ disk.posts_today = DAILY_LIMIT

\* ---- C12
LastAttemptFailed == attempts # <<>> /\ attempts[Len(attempts)].out # PostOk

\* C12: when the first attempt fails without the duplicate-content retry, or the
\* retry fails, the run ends with the error and the state file is the one the
\* run found.
C12_FatalKeepsState ==
    /\ (pc = "ended" /\ LastAttemptFailed) => outcome = "fatal"
    /\ (pc = "ended" /\ outcome = "fatal") => LastAttemptFailed /\ disk = loaded

\* a retry that failed, in a run whose state in memory differs from the file
C12_Witness ==
    /\ pc = "ended"
    /\ outcome = "fatal"
    /\ Len(attempts) = 2
    /\ loaded = DiskOld
    /\ state # loaded

\* ---- C13
\* C13: a run that ends without a successful post leaves posted_urls and the
\* recent records of the state file as it loaded them.
C13_LedgerOnlyAfterPost ==
    (pc = "ended" /\ outcome # "posted") =>
        /\ disk.posted_urls = loaded.posted_urls
        /\ disk.recent_urls_24h = loaded.recent_urls_24h

\* ---- C14
\* the pages of the listing whose extraction gave the items of the trace
Extracted == {p \in 1..Len(c_trace) : c_trace[p].got.items # <<>>}

C18_PagesInOrder ==
    c_pc \in {"fetched", "done"} =>
        /\ Len(c_trace) = Max2(c_pages, 0)
        /\ \A p \in 1..Len(c_trace) :
              LET g == c_trace[p].got IN
              /\ c_trace[p].page = p
              /\ g.gets <= LIST_MAX_RETRY
              /\ g.fulls \in {0, 1}
              /\ g.fulls = 1 <=> (g.lightRaised \/ g.lightCount = 0)
              /\ g.fullRaised => g.fulls = 1
              /\ (g.lightRaised /\ g.fullRaised) => g.items = <<>>
              /\ (g.fulls = 0) => Len(g.items) = g.lightCount
        /\ c_items = results_of(c_trace)

\* both strategies raise on page 1, and page 2 is fetched and gives its items
C18_Witness ==
    /\ c_pc = "fetched"
    /\ Len(c_trace) = 2
    /\ c_trace[1].got.lightRaised
    /\ c_trace[1].got.fullRaised
    /\ c_trace[2].got.fulls = 0
    /\ c_trace[2].got.items # <<>>
    /\ c_items = c_trace[2].got.items

\* ---- C19
FailsAt(k) == GetFails(gr_outs[k])

\* the first GET of the call that does not fail, 0 if every one fails
FirstGood ==
    IF \E k \in 1..gr_max : ~FailsAt(k)
    THEN CHOOSE k \in 1..gr_max : ~FailsAt(k) /\ \A j \in 1..(k - 1) : FailsAt(j)
    ELSE 0

\* C19: _get_with_retry makes at most max_retry GETs, returns the first response
\* with a status below 400 and makes no GET after it, sleeps only between two
\* GETs, and when every GET fails raises the error of the last one.
C19_GetWithRetry ==
    gr_pc = "done" =>
        /\ gr_ret.gets <= gr_max
        /\ gr_ret.sleeps = Max2(gr_ret.gets - 1, 0)
        /\ FirstGood > 0 =>
              /\ ~gr_ret.raised /\ ~gr_ret.none
              /\ gr_ret.gets = FirstGood
              /\ gr_ret.what = gr_outs[FirstGood]
        /\ (FirstGood = 0 /\ gr_max >= 1) =>
              /\ gr_ret.raised
              /\ gr_ret.gets = gr_max
              /\ gr_ret.what = gr_outs[gr_max]
        /\ gr_ret.raised => FirstGood = 0

\* a listing fetch whose GETs fail with a status, then in transport, and whose
\* third GET answers
C19_Witness ==
    /\ gr_pc = "done"
    /\ gr_max = LIST_MAX_RETRY
    /\ gr_outs[1] = Status(404)
    /\ gr_outs[2] = Transport
    /\ gr_ret.gets = 3
    /\ gr_ret.sleeps = 2
    /\ gr_ret.what = Status(200)

\* ---- C15
\* C15: a run assembles in the order collect, walk, then either the end of the
\* assembly or one deeper collection and a second walk: the collector is called
\* at most twice, first for 25 links; the second call, for 40, comes only after
\* the first walk ended with fewer than 5 links accepted and before the
\* deadline; probes come after the first collection, those of the second walk
\* after the second; a first collection of fewer than 5 links ends the run with
\* no probe, no second collection and no post.
C15_AssemblyOrder ==
    /\ Len(collects) <= 2
    /\ Len(collects) >= 1 =>
          /\ collects[1].want = WANT_FIRST
          /\ collects[1].after = "collect"
          /\ collects[1].accepted = 0
    /\ Len(collects) = 2 =>
          /\ collects[2].want = WANT_EXTRA
          /\ collects[2].after = "extra"
          /\ collects[2].accepted < TARGET
          /\ ~collects[2].late
          /\ collects[1].got >= TARGET
    /\ \A i \in 1..Len(probed) :
          /\ probed[i].pass \in 1..Len(collects)
          /\ \A j \in 1..(i - 1) : probed[j].pass <= probed[i].pass
    /\ pc = "walk" => Len(collects) = phase
    /\ (Posting \/ attempts # <<>>) => collects # <<>>
    /\ (collects # <<>> /\ collects[1].got < TARGET) =>
          /\ pc = "ended"
          /\ outcome = "few"
          /\ Len(collects) = 1
          /\ probed = <<>>
          /\ attempts = <<>>
    /\ outcome = "few" => collects # <<>> /\ collects[1].got < TARGET

\* the first walk accepted 4 links, the deeper collection brought a link from a
\* page the first did not reach, and the second walk made it the fifth
C15_Witness ==
    /\ pc = "post"
    /\ Len(collects) = 2
    /\ collects[2].accepted = TARGET - 1
    /\ collects[2].got >= 1
    /\ probed # <<>>
    /\ probed[Len(probed)].pass = 2
    /\ preflight[TARGET] = Canon(TARGET + 1)

\* ---- C16
\* C16: at every point of a run preflight holds at most 5 links, no link twice,
\* every one normalized, in tested, and not in already_seen (compared as
\* normalized links).
C16_PreflightSet ==
    /\ Len(preflight) <= TARGET
    /\ NoDup(preflight)
    /\ \A i \in 1..Len(preflight) :
          /\ preflight[i] = normalize_url(preflight[i])
          /\ preflight[i] \in tested
    /\ Normalized(Range(preflight)) \cap Normalized(already_seen) = {}

\* the walk holds 5 links with a candidate still ahead
C16_Witness ==
    /\ pc = "walk"
    /\ Len(preflight) = TARGET
    /\ idx <= Len(Walked)
    /\ ~Late

\* ---- C17
ProbedBefore(i) == {probed[j].url : j \in 1..(i - 1)}

\* C17: over both walks of a run is_alive_retry is invoked at most once for a
\* normalized link and never for a link of already_seen, and at each invocation
\* the link is already in tested.
C17_ProbedOnce ==
    \A i \in 1..Len(probed) :
        /\ probed[i].url = normalize_url(probed[i].url)
        /\ probed[i].url \notin ProbedBefore(i)
        /\ probed[i].url \notin Normalized(already_seen)
        /\ probed[i].url \in probed[i].tested
        /\ probed[i].tested \subseteq tested

\* the second walk meets, under another spelling, a link the first walk probed
\* and found dead
C17_Witness ==
    /\ pc = "walk"
    /\ phase = 2
    /\ idx <= Len(extra)
    /\ extra[idx] # normalize_url(extra[idx])
    /\ normalize_url(extra[idx]) \in ProbedBefore(Len(probed) + 1)
    /\ normalize_url(extra[idx]) \notin Range(preflight)
    /\ ~walk_stops

\* ---- C20
\* the posts counted for today in the state file as the run found it
CountAtStart ==
    IF loaded.last_post_date = JstDate(clock) THEN loaded.posts_today ELSE 0

\* C20: posts_today of the state file never exceeds 16; a run works with the
\* count of the file, or with 0 when the stored date is not today's JST date; a
\* successful post writes that count plus 1 under today's date; a run that
\* starts outside the hours 08-23 JST or with 16 posts counted today makes no
\* collection, no probe, no post and no write, and no other run is stopped at
\* the gate.
C20_DailyLimit ==
    /\ disk.posts_today <= DAILY_LIMIT
    /\ InRun =>
          /\ within_posting_window(clock)
          /\ state.posts_today < DAILY_LIMIT
          /\ state.last_post_date = JstDate(clock)
          /\ state.posts_today = CountAtStart
    /\ (pc = "ended" /\ outcome = "posted") =>
          /\ disk.last_post_date = JstDate(clock)
          /\ disk.posts_today = CountAtStart + 1
    /\ (pc = "ended" /\ outcome # "posted" /\ loaded.last_post_date = JstDate(clock)) =>
          disk.posts_today = loaded.posts_today
    /\ (pc = "ended" /\ outcome \in {"window", "limit"}) =>
          /\ collects = <<>>
          /\ probed = <<>>
          /\ attempts = <<>>
          /\ disk = loaded
    /\ pc = "ended" =>
          (outcome \in {"window", "limit"}
              <=> (~within_posting_window(clock) \/ CountAtStart >= DAILY_LIMIT))

\* the sixteenth post of the day is written, and the next run of the day stops
\* at the gate
C20_Witness ==
    /\ pc = "ended"
    /\ outcome = "limit"
    /\ Len(posts) = 1
    /\ loaded.posts_today = DAILY_LIMIT
    /\ loaded.last_post_date = JstDate(clock)

\* ---- C21
\* C21: line_seq of the state file never decreases: the step of a successful
\* post, whose text numbers its 5 lines from the stored line_seq on, raises it by
\* exactly 5, and every other step leaves it as it is; so the numbers of
\* successive posts follow one another without gap or overlap.
C21_LineSeqMonotone ==
    [][/\ disk'.line_seq >= disk.line_seq
       /\ IF posts' # posts
          THEN /\ Len(status_text.lines) = 5
               /\ \A i \in 1..5 : status_text.lines[i].seq = disk.line_seq + i - 1
               /\ disk'.line_seq = disk.line_seq + 5
          ELSE disk'.line_seq = disk.line_seq]_vars

\* the second post over a state file: it used the numbers 6..10
C21_Witness ==
    /\ pc = "ended"
    /\ outcome = "posted"
    /\ Len(posts) = 2
    /\ loaded.line_seq = FIRST_LINE_SEQ + 5
    /\ status_text.lines[1].seq = FIRST_LINE_SEQ + 5
    /\ disk.line_seq = FIRST_LINE_SEQ + 10

====
